---- MODULE Spec2Model ----
(***************************************************************************)
(* A model of the gtin crate: digit extraction, the GS1 mod-10 checksum,   *)
(* the length/leading-digit classifier (TryFrom<&str>), the explicit       *)
(* EAN-8 / UPC-E parsers, the UPC-E to UPC-A expansion, and the GS1 prefix *)
(* classifiers (number system, country code, EAN-13 conversion).           *)
(*                                                                         *)
(* Texts are sequences of Unicode code points, digit slices are sequences  *)
(* of u8 values, a GTIN value is a record [variant, digits].               *)
(***************************************************************************)
EXTENDS Integers, Sequences, FiniteSets

VARIABLES
    kind,   \* which argument the caller holds: "text", "slice" or "value"
    text,   \* the &str handed to a parsing entry point (code points)
    slice,  \* the &[u8] handed to a util function
    gtin,   \* the GTIN value the caller holds, Some(v) or None
    call,   \* the operation that ran last ("none" before any call)
    ret     \* what that operation returned

vars == <<kind, text, slice, gtin, call, ret>>

----------------------------------------------------------------------------
(* Bounds of the explored inputs *)

\* Longest digit sequence generated (the code accepts 8..14).
MaxLen == 15
\* How many positions at the front, and how many before the last digit, vary
\* over Bin in a generated digit sequence.
Vary == 3

----------------------------------------------------------------------------
(* Rust value shapes *)

None == [some |-> FALSE]
Some(x) == [some |-> TRUE, val |-> x]
Ok(x) == [ok |-> TRUE, val |-> x]
Err(e) == [ok |-> FALSE, err |-> e]

\* How a call that can panic ends: it returns x, or it panics with a message.
Returned(x) == [panic |-> FALSE, val |-> x]
Panic(msg) == [panic |-> TRUE, msg |-> msg]

\* enum GtinError
InvalidLength(n) == [kind |-> "InvalidLength", len |-> n]
InvalidChecksum == [kind |-> "InvalidChecksum"]
ConversionFailed == [kind |-> "ConversionFailed"]
\* expand_upce_to_upca reports its failures as a String
StringError(msg) == [kind |-> "String", msg |-> msg]

\* enum GTIN
UpcE(d) == [variant |-> "UpcE", digits |-> d]
UpcA(d) == [variant |-> "UpcA", digits |-> d]
Ean8(d) == [variant |-> "Ean8", digits |-> d]
Ean13(d) == [variant |-> "Ean13", digits |-> d]
Gtin14(d) == [variant |-> "Gtin14", digits |-> d]

\* enum NumberSystem
NumberSystem ==
    {"General", "StoreUse", "Coupon", "Drug", "Issn", "Isbn", "Refund", "Unknown"}

\* The array length each variant carries.
ArrayLen(variant) ==
    CASE variant = "UpcE" -> 8
      [] variant = "UpcA" -> 12
      [] variant = "Ean8" -> 8
      [] variant = "Ean13" -> 13
      [] variant = "Gtin14" -> 14

----------------------------------------------------------------------------
(* util *)

\* char::is_ascii_digit: '0'..='9' are the code points 48..=57
is_ascii_digit(c) == c >= 48 /\ c <= 57

\* digits.iter().map(|&d| (d + b'0') as char).collect()
\* The set of outcomes. d + b'0' is a u8 addition: for a byte d >= 208 it
\* overflows, which panics in a build with overflow checks (debug) and wraps in
\* a build without them (release). For bytes up to 207 there is one outcome.
digits_to_string(ds) ==
    LET wrapped == [i \in 1..Len(ds) |-> (ds[i] + 48) % 256]
        overflows == \E i \in 1..Len(ds) : ds[i] + 48 > 255
    IN  IF overflows
        THEN {Panic("attempt to add with overflow"), Returned(wrapped)}
        ELSE {Returned(wrapped)}

\* ChecksumTerm with the weights 3 and 1 exchanged.
ChecksumTerm_SwappedWeights(ds, index) ==
    LET digit == ds[Len(ds) - index]
    IN  IF index % 2 = 0 THEN digit ELSE digit * 3

\* One term of the checksum sum: index counts from 0 over the reversed slice.
ChecksumTerm(ds, index) ==
    LET digit == ds[Len(ds) - index]
    IN  IF index % 2 = 0 THEN digit * 3 ELSE digit

\* .sum() over the first n terms. The sum is a u32; with terms of at most 27
\* it stays far below 2^32 for every slice of the model, so it never wraps.
RECURSIVE ChecksumSum(_, _)
ChecksumSum(ds, n) ==
    IF n = 0 THEN 0
    ELSE ChecksumSum(ds, n - 1) + ChecksumTerm(ds, n - 1)

calculate_checksum_digit(ds) ==
    LET sum == ChecksumSum(ds, Len(ds))
    IN  (10 - (sum % 10)) % 10

validate_gtin(ds) ==
    IF Len(ds) < 8 \/ Len(ds) > 14 THEN FALSE
    ELSE LET checksum_index == Len(ds) - 1
             checksum_digit == ds[checksum_index + 1]
         IN  checksum_digit = calculate_checksum_digit(SubSeq(ds, 1, checksum_index))

\* extract_digits keeping every Unicode decimal digit, not only the ASCII ones
\* (U+0660..U+0669 are the Arabic-Indic digits).
extract_digits_AnyDecimal(input) ==
    LET kept == SelectSeq(input,
                    LAMBDA c : is_ascii_digit(c) \/ (c >= 1632 /\ c <= 1641))
    IN  [i \in 1..Len(kept) |->
            IF is_ascii_digit(kept[i]) THEN kept[i] - 48 ELSE kept[i] - 1632]

\* filter(is_ascii_digit), then to_digit(10)
extract_digits(input) ==
    LET kept == SelectSeq(input, is_ascii_digit)
    IN  [i \in 1..Len(kept) |-> kept[i] - 48]

\* The 6 digits the expansion reads, by the input's length.
MiddleDigits(upce) ==
    CASE Len(upce) = 6 -> upce
      [] Len(upce) = 7 -> SubSeq(upce, 1, 6)
      [] Len(upce) = 8 -> SubSeq(upce, 2, 7)

\* The (manufacturer_number, item_number) pair; m is 1-based here, m[6] is
\* middle_digits[5].
ManufacturerItem(m) ==
    CASE m[6] \in {0, 1, 2} ->
            << <<m[1], m[2], m[6], 0, 0>>, <<0, 0, m[3], m[4], m[5]>> >>
      [] m[6] = 3 ->
            << <<m[1], m[2], m[3], 0, 0>>, <<0, 0, 0, m[4], m[5]>> >>
      [] m[6] = 4 ->
            << <<m[1], m[2], m[3], m[4], 0>>, <<0, 0, 0, 0, m[5]>> >>
      [] OTHER ->
            << <<m[1], m[2], m[3], m[4], m[5]>>, <<0, 0, 0, 0, m[6]>> >>

expand_upce_to_upca(upce) ==
    IF Len(upce) < 6 \/ Len(upce) > 8
    THEN Err(StringError("Invalid UPC-E length"))
    ELSE LET middle_digits == MiddleDigits(upce)
             pair == ManufacturerItem(middle_digits)
             body == <<0>> \o pair[1] \o pair[2]
             new_upca_digits == Append(body, calculate_checksum_digit(body))
         IN  IF Len(new_upca_digits) # 12
             THEN Err(StringError("Failed to construct valid UPC-A"))
             ELSE Ok(UpcA(SubSeq(new_upca_digits, 1, 12)))

----------------------------------------------------------------------------
(* impl GTIN *)

digits(self) == self.digits

len(self) == Len(digits(self))

format_name(self) ==
    CASE self.variant = "UpcE" -> "UPC-E"
      [] self.variant = "UpcA" -> "UPC-A"
      [] self.variant = "Ean8" -> "EAN-8"
      [] self.variant = "Ean13" -> "EAN-13"
      [] self.variant = "Gtin14" -> "GTIN-14"

\* to_string printing the digit values themselves instead of their characters.
to_string_RawBytes(self) == {Returned(digits(self))}

\* impl Display for GTIN: the set of outcomes of digits_to_string
to_string(self) == digits_to_string(digits(self))

\* Classify with the 11-digit repair putting its zero at the wrong end.
Classify_ZeroAppended(ds) ==
    CASE Len(ds) = 8 ->
            IF ds[1] # 0 THEN Ok(Ean8(ds)) ELSE Ok(UpcE(ds))
      [] Len(ds) = 11 -> Ok(UpcA(ds \o <<0>>))
      [] Len(ds) = 12 -> Ok(UpcA(ds))
      [] Len(ds) = 13 /\ ds[1] = 0 -> Ok(UpcA(SubSeq(ds, 2, 13)))
      [] Len(ds) = 13 /\ ds[1] # 0 -> Ok(Ean13(ds))
      [] Len(ds) = 14 -> Ok(Gtin14(ds))
      [] OTHER -> Err(InvalidLength(Len(ds)))

\* The match on digits.len() of try_from, reached once validate_gtin passed.
Classify(ds) ==
    CASE Len(ds) = 8 ->
            IF ds[1] # 0 THEN Ok(Ean8(ds)) ELSE Ok(UpcE(ds))
      [] Len(ds) = 11 -> Ok(UpcA(<<0>> \o ds))
      [] Len(ds) = 12 -> Ok(UpcA(ds))
      [] Len(ds) = 13 /\ ds[1] = 0 -> Ok(UpcA(SubSeq(ds, 2, 13)))
      [] Len(ds) = 13 /\ ds[1] # 0 -> Ok(Ean13(ds))
      [] Len(ds) = 14 -> Ok(Gtin14(ds))
      [] OTHER -> Err(InvalidLength(Len(ds)))

\* try_from with the upper length limit of its error branch off by one.
try_from_LengthOffByOne(value) ==
    LET ds == extract_digits(value)
    IN  IF ~validate_gtin(ds)
        THEN IF Len(ds) < 8 \/ Len(ds) > 13
             THEN Err(InvalidLength(Len(ds)))
             ELSE Err(InvalidChecksum)
        ELSE Classify(ds)

\* impl TryFrom<&str> for GTIN
try_from(value) ==
    LET ds == extract_digits(value)
    IN  IF ~validate_gtin(ds)
        THEN IF Len(ds) < 8 \/ Len(ds) > 14
             THEN Err(InvalidLength(Len(ds)))
             ELSE Err(InvalidChecksum)
        ELSE Classify(ds)

parse_ean8(input) ==
    LET ds == extract_digits(input)
    IN  IF Len(ds) # 8 THEN Err(InvalidLength(Len(ds)))
        ELSE IF ~validate_gtin(ds) THEN Err(InvalidChecksum)
        ELSE Ok(Ean8(ds))

\* parse_upce validating the checksum before it looks at the length.
parse_upce_ChecksumFirst(input) ==
    LET ds == extract_digits(input)
    IN  IF ~validate_gtin(ds) THEN Err(InvalidChecksum)
        ELSE IF Len(ds) # 8 THEN Err(InvalidLength(Len(ds)))
        ELSE Ok(UpcE(ds))

parse_upce(input) ==
    LET ds == extract_digits(input)
    IN  IF Len(ds) # 8 THEN Err(InvalidLength(Len(ds)))
        ELSE IF ~validate_gtin(ds) THEN Err(InvalidChecksum)
        ELSE Ok(UpcE(ds))

\* as_ean13 copying the UPC-A digits to the front of the zeroed 13-digit array.
as_ean13_PadAtEnd(self) ==
    CASE self.variant = "Ean13" -> Some(self)
      [] self.variant = "UpcA" -> Some(Ean13(digits(self) \o <<0>>))
      [] self.variant = "UpcE" ->
            LET upca == expand_upce_to_upca(digits(self))
            IN  IF ~upca.ok THEN None
                ELSE Some(Ean13(digits(upca.val) \o <<0>>))
      [] OTHER -> None

as_ean13(self) ==
    CASE self.variant = "Ean13" -> Some(self)
      [] self.variant = "UpcA" -> Some(Ean13(<<0>> \o digits(self)))
      [] self.variant = "UpcE" ->
            LET upca == expand_upce_to_upca(digits(self))
            IN  IF ~upca.ok THEN None
                ELSE Some(Ean13(<<0>> \o digits(upca.val)))
      [] OTHER -> None

\* gs1_prefix reading a UpcE's own first two digits, without expanding it.
gs1_prefix_UpcENotExpanded(self) ==
    LET d == digits(self)
    IN  CASE self.variant = "Ean13" -> Some(<<d[1], d[2], d[3]>>)
          [] self.variant = "UpcA" -> Some(<<0, d[1], d[2]>>)
          [] self.variant = "UpcE" -> Some(<<0, d[1], d[2]>>)
          [] self.variant = "Ean8" -> Some(<<d[1], d[2], d[3]>>)
          [] self.variant = "Gtin14" -> Some(<<d[2], d[3], d[4]>>)

\* gs1_prefix reading a Gtin14 from its indicator digit on.
gs1_prefix_IndicatorKept(self) ==
    LET d == digits(self)
    IN  CASE self.variant = "Ean13" -> Some(<<d[1], d[2], d[3]>>)
          [] self.variant = "UpcA" -> Some(<<0, d[1], d[2]>>)
          [] self.variant = "UpcE" ->
                LET upca == expand_upce_to_upca(d)
                IN  IF ~upca.ok THEN None
                    ELSE Some(<<0, digits(upca.val)[1], digits(upca.val)[2]>>)
          [] self.variant = "Ean8" -> Some(<<d[1], d[2], d[3]>>)
          [] self.variant = "Gtin14" -> Some(<<d[1], d[2], d[3]>>)

gs1_prefix(self) ==
    LET d == digits(self)
    IN  CASE self.variant = "Ean13" -> Some(<<d[1], d[2], d[3]>>)
          [] self.variant = "UpcA" -> Some(<<0, d[1], d[2]>>)
          [] self.variant = "UpcE" ->
                LET upca == expand_upce_to_upca(d)
                IN  IF ~upca.ok THEN None
                    ELSE Some(<<0, digits(upca.val)[1], digits(upca.val)[2]>>)
          [] self.variant = "Ean8" -> Some(<<d[1], d[2], d[3]>>)
          [] self.variant = "Gtin14" -> Some(<<d[2], d[3], d[4]>>)

\* NumberSystem::from_prefix
from_prefix(prefix) ==
    IF Len(prefix) # 3 THEN "Unknown"
    ELSE LET number == prefix[1] * 100 + prefix[2] * 10 + prefix[3]
         IN  CASE number \in 20..29 \/ number \in 40..49 \/ number \in 200..299 ->
                    "StoreUse"
               [] number \in 30..39 -> "Drug"
               [] number \in 50..59 \/ number \in 981..984 \/ number \in 990..999 ->
                    "Coupon"
               [] number = 977 -> "Issn"
               [] number \in 978..979 -> "Isbn"
               [] number = 980 -> "Refund"
               [] OTHER -> "General"

number_system(self) ==
    LET p == gs1_prefix(self)
    IN  IF p.some THEN from_prefix(p.val) ELSE "Unknown"

\* The match on the prefix number inside country_code.
CountryOfNumber(number) ==
    CASE number \in 0..139 -> Some("US")
      [] number \in 300..379 -> Some("FR")
      [] number = 380 -> Some("BG")
      [] number = 383 -> Some("SI")
      [] number = 385 -> Some("HR")
      [] number = 387 -> Some("BA")
      [] number = 389 -> Some("ME")
      [] number = 390 -> Some("KOSOVO")
      [] number \in 400..440 -> Some("DE")
      [] number \in 450..459 \/ number \in 490..499 -> Some("JP")
      [] number \in 460..469 -> Some("RU")
      [] number = 470 -> Some("KG")
      [] number = 471 -> Some("TW")
      [] number = 474 -> Some("EE")
      [] number \in 500..509 -> Some("GB")
      [] number \in 520..521 -> Some("GR")
      [] number = 539 -> Some("IE")
      [] number \in 540..549 -> Some("BE")
      [] number \in 570..579 -> Some("DK")
      [] number = 590 -> Some("PL")
      [] number = 599 -> Some("HU")
      [] number = 618 -> Some("CI")
      [] number = 619 -> Some("TN")
      [] number \in 640..649 -> Some("FI")
      [] number \in 700..709 -> Some("NO")
      [] number \in 730..739 -> Some("SE")
      [] number = 742 -> Some("HN")
      [] number = 750 -> Some("MX")
      [] number \in 754..755 -> Some("CA")
      [] number = 759 -> Some("VE")
      [] number \in 760..769 -> Some("CH")
      [] number = 773 -> Some("UY")
      [] number \in 789..790 -> Some("BR")
      [] number \in 800..839 -> Some("IT")
      [] number \in 840..849 -> Some("ES")
      [] number = 858 -> Some("SK")
      [] number = 859 -> Some("CZ")
      [] number = 860 -> Some("RS")
      [] number \in 870..879 -> Some("NL")
      [] number = 885 -> Some("TH")
      [] number = 888 -> Some("SG")
      [] number \in 900..919 -> Some("AT")
      [] number \in 930..939 -> Some("AU")
      [] number \in 940..949 -> Some("NZ")
      [] OTHER -> None

\* country_code looking every number system but Drug up in the country table.
country_code_NoReservedRanges(self) ==
    LET ns == number_system(self)
    IN  CASE ns = "Drug" -> Some("US")
          [] OTHER ->
                LET prefix == gs1_prefix(self)
                IN  IF ~prefix.some THEN None
                    ELSE CountryOfNumber(
                            prefix.val[1] * 100 + prefix.val[2] * 10 + prefix.val[3])

country_code(self) ==
    LET ns == number_system(self)
    IN  CASE ns = "Drug" -> Some("US")
          [] ns \in {"StoreUse", "Coupon", "Isbn", "Issn", "Refund"} -> None
          [] OTHER ->
                LET prefix == gs1_prefix(self)
                IN  IF ~prefix.some THEN None
                    ELSE CountryOfNumber(
                            prefix.val[1] * 100 + prefix.val[2] * 10 + prefix.val[3])

----------------------------------------------------------------------------
(* The inputs the callers draw from *)

Digit == 0..9
\* The two values a varying inner position takes: a zero and a non-zero digit.
Bin == {0, 7}
\* The digit a fixed inner position holds.
Filler(i) == (3 * i + 1) % 10

\* All sequences whose i-th element is drawn from sets[i].
RECURSIVE Product(_)
Product(sets) ==
    IF sets = <<>> THEN {<<>>}
    ELSE {<<x>> \o s : x \in Head(sets), s \in Product(Tail(sets))}

Fill(from, to) == [i \in 1..(to - from + 1) |-> {Filler(from + i - 1)}]

\* Digit sequences of length n: any last digit, Vary positions at the front and
\* Vary positions before the last digit over Bin, the rest fixed.
DigitStrings(n) ==
    Product([i \in 1..n |->
        IF i = n THEN Digit
        ELSE IF i <= Vary \/ i >= n - Vary THEN Bin
        ELSE {Filler(i)}])

DigitInputs == UNION {DigitStrings(n) : n \in 0..MaxLen}

\* UPC-E encodings of length 5..9: the 6 core digits take every selector digit.
CoreInputs == Product(<<Bin, Bin, Bin, Bin, Bin, Digit>>)
ExpandInputs ==
    Product(<<Bin, Bin, Bin, Bin, Bin>>)
    \cup CoreInputs
    \cup {c \o <<x>> : c \in CoreInputs, x \in Bin}
    \cup {<<n>> \o c \o <<x>> : n \in Bin, c \in CoreInputs, x \in Bin}
    \cup {<<0>> \o c \o <<0, 0>> : c \in CoreInputs}

SliceInputs == DigitInputs \cup ExpandInputs

\* The text of a digit sequence, '0' being code point 48.
CharsOf(ds) == [i \in 1..Len(ds) |-> 48 + ds[i]]

\* The ways a source writes a code: bare; as "0 71720 53977 4" with spaces (32)
\* after the first and before the last digit; and with a hyphen (45), a letter
\* (104) and a non-ASCII digit (U+0663, 1635) around the digits.
Styles == {"bare", "spaced", "noisy"}
Decorate(chars, style) ==
    CASE style = "bare" -> chars
      [] style = "spaced" ->
            IF Len(chars) < 2 THEN <<32>> \o chars
            ELSE <<chars[1], 32>> \o SubSeq(chars, 2, Len(chars) - 1)
                    \o <<32, chars[Len(chars)]>>
      [] style = "noisy" ->
            IF Len(chars) < 1 THEN <<45, 1635>>
            ELSE <<45, chars[1], 104>> \o SubSeq(chars, 2, Len(chars)) \o <<1635>>

TextInputs == {Decorate(CharsOf(ds), style) : ds \in DigitInputs, style \in Styles}

\* GTIN values built with the enum's constructors: the digits that decide the
\* GS1 prefix take every value, the last digit is the check digit or the next one.
WithLast(bodies) ==
    {Append(b, (calculate_checksum_digit(b) + k) % 10) : b \in bodies, k \in {0, 1}}

ValueInputs ==
    {Ean13(d) : d \in WithLast(Product(<<Digit, Digit, Digit>> \o Fill(4, 12)))}
    \cup {Ean8(d) : d \in WithLast(Product(<<Digit, Digit, Digit>> \o Fill(4, 7)))}
    \cup {UpcA(d) : d \in WithLast(Product(<<Digit, Digit, Bin>> \o Fill(4, 11)))}
    \cup {UpcE(d) : d \in
            WithLast(Product(<<{0, 5}, Digit, Bin>> \o Fill(4, 6) \o <<Digit>>))}
    \cup {Gtin14(d) : d \in
            WithLast(Product(<<{0, 9}, Digit, Digit, Digit>> \o Fill(5, 13)))}

\* Values whose first array element is a byte that is no digit: the
\* constructors take any u8. 207 is the largest byte that b'0' can be added to.
ByteValueInputs ==
    {Ean13(d) : d \in WithLast(Product(<<{207, 208, 255}>> \o Fill(2, 12)))}
    \cup {Ean8(d) : d \in WithLast(Product(<<{207, 208, 255}>> \o Fill(2, 7)))}
    \cup {UpcA(d) : d \in WithLast(Product(<<{207, 208, 255}>> \o Fill(2, 11)))}
    \cup {UpcE(d) : d \in WithLast(Product(<<{207, 208, 255}>> \o Fill(2, 7)))}
    \cup {Gtin14(d) : d \in WithLast(Product(<<{207, 208, 255}>> \o Fill(2, 13)))}

----------------------------------------------------------------------------
(* The state machine: a caller holds one argument and calls the library *)

Init ==
    /\ call = "none"
    /\ ret = None
    /\ \/ kind = "text" /\ text \in TextInputs /\ slice = <<>> /\ gtin = None
       \/ kind = "slice" /\ text = <<>> /\ slice \in SliceInputs /\ gtin = None
       \/ kind = "value" /\ text = <<>> /\ slice = <<>>
            /\ gtin \in {Some(v) : v \in ValueInputs \cup ByteValueInputs}

ParseCalls == {"try_from", "parse_ean8", "parse_upce"}

\* GTIN::try_from(text), on the caller's text or on the text to_string produced
TryFrom ==
    /\ \/ kind = "text" /\ call = "none" /\ ~gtin.some
       \/ call = "to_string" /\ ~ret.panic
    /\ call' = "try_from"
    /\ ret' = try_from(text)
    /\ UNCHANGED <<kind, text, slice, gtin>>

\* GTIN::parse_ean8(text)
ParseEan8 ==
    /\ kind = "text" /\ call = "none" /\ ~gtin.some
    /\ call' = "parse_ean8"
    /\ ret' = parse_ean8(text)
    /\ UNCHANGED <<kind, text, slice, gtin>>

\* GTIN::parse_upce(text)
ParseUpce ==
    /\ kind = "text" /\ call = "none" /\ ~gtin.some
    /\ call' = "parse_upce"
    /\ ret' = parse_upce(text)
    /\ UNCHANGED <<kind, text, slice, gtin>>

\* result.unwrap(): the caller keeps the value a parse returned
Unwrap ==
    /\ kind = "text" /\ call \in ParseCalls /\ ~gtin.some
    /\ ret.ok
    /\ gtin' = Some(ret.val)
    /\ call' = "none"
    /\ ret' = None
    /\ UNCHANGED <<kind, text, slice>>

\* gtin.to_string(), through impl Display
Display ==
    /\ gtin.some /\ call = "none"
    /\ call' = "to_string"
    /\ \E outcome \in to_string(gtin.val) :
            /\ ret' = outcome
            /\ text' = IF outcome.panic THEN text ELSE outcome.val
    /\ UNCHANGED <<kind, slice, gtin>>

\* gtin.as_ean13()
AsEan13 ==
    /\ gtin.some /\ call = "none"
    /\ call' = "as_ean13"
    /\ ret' = as_ean13(gtin.val)
    /\ UNCHANGED <<kind, text, slice, gtin>>

\* gtin.number_system()
NumberSystemOf ==
    /\ gtin.some /\ call = "none"
    /\ call' = "number_system"
    /\ ret' = number_system(gtin.val)
    /\ UNCHANGED <<kind, text, slice, gtin>>

\* gtin.gs1_prefix(), the private helper of number_system and country_code
Gs1Prefix ==
    /\ gtin.some /\ call = "none"
    /\ call' = "gs1_prefix"
    /\ ret' = gs1_prefix(gtin.val)
    /\ UNCHANGED <<kind, text, slice, gtin>>

\* gtin.country_code()
CountryCode ==
    /\ gtin.some /\ call = "none"
    /\ call' = "country_code"
    /\ ret' = country_code(gtin.val)
    /\ UNCHANGED <<kind, text, slice, gtin>>

\* util::validate_gtin(slice)
Validate ==
    /\ kind = "slice" /\ call = "none"
    /\ call' = "validate_gtin"
    /\ ret' = validate_gtin(slice)
    /\ UNCHANGED <<kind, text, slice, gtin>>

\* util::calculate_checksum_digit(slice)
CalculateChecksumDigit ==
    /\ kind = "slice" /\ call = "none"
    /\ call' = "calculate_checksum_digit"
    /\ ret' = calculate_checksum_digit(slice)
    /\ UNCHANGED <<kind, text, slice, gtin>>

\* util::expand_upce_to_upca(slice)
ExpandUpce ==
    /\ kind = "slice" /\ call = "none"
    /\ call' = "expand_upce_to_upca"
    /\ ret' = expand_upce_to_upca(slice)
    /\ UNCHANGED <<kind, text, slice, gtin>>

Next ==
    \/ TryFrom
    \/ ParseEan8
    \/ ParseUpce
    \/ Unwrap
    \/ Display
    \/ AsEan13
    \/ NumberSystemOf
    \/ Gs1Prefix
    \/ CountryCode
    \/ Validate
    \/ CalculateChecksumDigit
    \/ ExpandUpce

Spec == Init /\ [][Next]_vars

----------------------------------------------------------------------------
(* What the specification says, stated without the code's definitions *)

\* The weighted sum of a payload p: weight 3 at even distance from the right
\* end of p, weight 1 at odd distance. Taken left to right.
RECURSIVE GS1Sum(_)
GS1Sum(p) ==
    IF p = <<>> THEN 0
    ELSE Head(p) * (IF (Len(p) - 1) % 2 = 0 THEN 3 ELSE 1) + GS1Sum(Tail(p))

GS1CheckDigit(p) == (10 - (GS1Sum(p) % 10)) % 10

Front(s) == SubSeq(s, 1, Len(s) - 1)

\* The last digit of s is the check digit of the digits before it.
CheckDigitOk(s) == Len(s) >= 1 /\ s[Len(s)] = GS1CheckDigit(Front(s))

\* The digits of a text, in order: the ASCII digits '0'..'9' and nothing else.
RECURSIVE DigitsIn(_)
DigitsIn(t) ==
    IF t = <<>> THEN <<>>
    ELSE IF Head(t) \in 48..57 THEN <<Head(t) - 48>> \o DigitsIn(Tail(t))
    ELSE DigitsIn(Tail(t))

\* The data-model invariant of a GTIN value.
WellFormed(v) ==
    /\ Len(v.digits) = ArrayLen(v.variant)
    /\ \A i \in 1..Len(v.digits) : v.digits[i] \in 0..9
    /\ CheckDigitOk(v.digits)

----------------------------------------------------------------------------
(* Claims *)

\* C1: validate(s) is true exactly when 8 <= len(s) <= 14 and the last digit of
\* s is the GS1 check digit of the digits before it (so it is false for every
\* other length), and compute_check_digit returns the GS1 check digit, a value
\* in 0..9.
C1_ValidateIffCheckDigit ==
    /\ call = "validate_gtin" =>
            ret = (Len(slice) >= 8 /\ Len(slice) <= 14 /\ CheckDigitOk(slice))
    /\ call = "calculate_checksum_digit" =>
            ret \in 0..9 /\ ret = GS1CheckDigit(slice)

\* validate accepted a 14-digit sequence.
C1_Witness ==
    call = "validate_gtin" /\ Len(slice) = 14 /\ ret = TRUE

\* C2: every GTIN value an entry point returns (try_from, parse_ean8,
\* parse_upce, expand on 6..8 digits, as_ean13 of a well-formed value) has its
\* variant's length, only digits 0..9, and a last digit that is the check digit
\* of the digits before it.
C2_ReturnedValuesWellFormed ==
    /\ (call \in ParseCalls /\ ret.ok) => WellFormed(ret.val)
    /\ (call = "expand_upce_to_upca" /\ Len(slice) \in 6..8 /\ ret.ok) =>
            WellFormed(ret.val)
    /\ (call = "as_ean13" /\ WellFormed(gtin.val) /\ ret.some) =>
            WellFormed(ret.val)

\* try_from returned a value for an 11-digit text (the leading zero re-inserted).
C2_Witness ==
    call = "try_from" /\ Len(DigitsIn(text)) = 11 /\ ret.ok

\* The text of a value: its digits as the characters '0'..'9'.
TextOf(v) == [i \in 1..Len(v.digits) |-> 48 + v.digits[i]]

\* to_string of a value holding only digits 0..9 returns its text and cannot
\* panic; the debug and the release build differ only for bytes of 208 and more,
\* where to_string either panics or returns the wrapped bytes.
ToStringOutcomes ==
    call = "to_string" =>
        LET v == gtin.val
        IN  IF \A i \in 1..Len(v.digits) : v.digits[i] <= 207
            THEN ret = Returned(TextOf(v)) /\ text = TextOf(v)
            ELSE ret.panic \/ text = [i \in 1..Len(v.digits) |-> (v.digits[i] + 48) % 256]

\* to_string panicked on a value holding a byte of 208 or more.
ToStringPanicked == call = "to_string" /\ ret.panic

\* The digits of the text a try_from call read.
Extracted == DigitsIn(text)

\* C3 as stated: try_from fails with InvalidLength(n) exactly when the digit
\* count n is outside 8..14, and within 8..14 it fails only with
\* InvalidChecksum and only when the last digit is not the check digit.
C3_Original ==
    call = "try_from" =>
        LET n == Len(Extracted)
        IN  /\ (ret = Err(InvalidLength(n))) <=> (n < 8 \/ n > 14)
            /\ (n >= 8 /\ n <= 14 /\ ~ret.ok) =>
                    (ret = Err(InvalidChecksum) /\ ~CheckDigitOk(Extracted))

\* C3 (amended): try_from fails with InvalidLength(n) exactly when n is outside
\* 8..14, or n is 9 or 10 and the last digit is the check digit of the digits
\* before it; it fails with InvalidChecksum exactly when n is within 8..14 and
\* the last digit is not the check digit; every other text is accepted.
C3_Errors ==
    call = "try_from" =>
        LET n == Len(Extracted)
            inRange == n >= 8 /\ n <= 14
        IN  /\ (ret = Err(InvalidLength(n))) <=>
                    (~inRange \/ (n \in {9, 10} /\ CheckDigitOk(Extracted)))
            /\ (ret = Err(InvalidChecksum)) <=>
                    (inRange /\ ~CheckDigitOk(Extracted))
            /\ ret.ok <=> (n \in {8, 11, 12, 13, 14} /\ CheckDigitOk(Extracted))

\* try_from rejected a 9-digit text whose check digit is right, for its length.
C3_Witness ==
    /\ call = "try_from"
    /\ Len(Extracted) = 9
    /\ CheckDigitOk(Extracted)
    /\ ret = Err(InvalidLength(9))

\* The variant and digits the decision table gives a validated digit sequence
\* of a supported length.
TableValue(d) ==
    CASE Len(d) = 8 /\ d[1] = 0 -> UpcE(d)
      [] Len(d) = 8 /\ d[1] # 0 -> Ean8(d)
      [] Len(d) = 11 -> UpcA(<<0>> \o d)
      [] Len(d) = 12 -> UpcA(d)
      [] Len(d) = 13 /\ d[1] = 0 -> UpcA(Tail(d))
      [] Len(d) = 13 /\ d[1] # 0 -> Ean13(d)
      [] Len(d) = 14 -> Gtin14(d)

\* C4: try_from of a text whose digits d pass validate depends on d alone and
\* returns the decision table's value; an 11-digit code, its 12-digit form 0d
\* and its 13-digit form 00d give the same UpcA; no Ean13 returned starts with 0.
C4_DecisionTable ==
    call = "try_from" =>
        LET d == Extracted
        IN  /\ (Len(d) \in {8, 11, 12, 13, 14} /\ CheckDigitOk(d)) =>
                    ret = Ok(TableValue(d))
            /\ (Len(d) = 11 /\ CheckDigitOk(d)) =>
                    /\ try_from(CharsOf(<<0>> \o d)) = ret
                    /\ try_from(CharsOf(<<0, 0>> \o d)) = ret
            /\ (ret.ok /\ ret.val.variant = "Ean13") => ret.val.digits[1] # 0

\* try_from stripped the leading zero of a 13-digit code written with
\* characters that are not ASCII digits.
C4_Witness ==
    /\ call = "try_from"
    /\ Len(text) > Len(Extracted)
    /\ Len(Extracted) = 13
    /\ Extracted[1] = 0
    /\ ret.ok
    /\ ret.val.variant = "UpcA"

\* A state after to_string and try_from: the held value was printed and re-read.
Reparsed == call = "try_from" /\ gtin.some

\* C5 as stated: every well-formed value other than an Ean13 starting with 0
\* is returned unchanged by try_from(to_string(v)).
C5_Original ==
    (Reparsed /\ WellFormed(gtin.val)
        /\ ~(gtin.val.variant = "Ean13" /\ gtin.val.digits[1] = 0))
    => ret = Ok(gtin.val)

\* C5 (amended): try_from(to_string(v)) succeeds for every well-formed v and
\* returns v itself, with three exceptions: an Ean13 starting with 0 comes back
\* as the UpcA of its last 12 digits, a UpcE not starting with 0 comes back as
\* the Ean8 of the same digits, and an Ean8 starting with 0 comes back as the
\* UpcE of the same digits.
C5_RoundTrip ==
    /\ (call = "to_string" /\ WellFormed(gtin.val)) => ~ret.panic
    /\ (Reparsed /\ WellFormed(gtin.val)) =>
           LET v == gtin.val
           IN  ret = Ok(CASE v.variant = "Ean13" /\ v.digits[1] = 0 -> UpcA(Tail(v.digits))
                          [] v.variant = "UpcE" /\ v.digits[1] # 0 -> Ean8(v.digits)
                          [] v.variant = "Ean8" /\ v.digits[1] = 0 -> UpcE(v.digits)
                          [] OTHER -> v)

\* A UpcE that parse_upce forced on digits starting with a non-zero digit was
\* printed and re-read, and came back as an Ean8.
C5_Witness ==
    /\ Reparsed
    /\ kind = "text"
    /\ gtin.val.variant = "UpcE"
    /\ gtin.val.digits[1] # 0
    /\ ret.ok
    /\ ret.val.variant = "Ean8"

\* What an explicit parser returns for a text, given the variant it forces.
ExplicitParse(t, forced(_)) ==
    LET d == DigitsIn(t)
    IN  IF Len(d) # 8 THEN Err(InvalidLength(Len(d)))
        ELSE IF ~CheckDigitOk(d) THEN Err(InvalidChecksum)
        ELSE Ok(forced(d))

\* C6: parse_ean8 and parse_upce return InvalidLength(len) when the text has
\* not exactly 8 digits (before looking at the checksum), InvalidChecksum when
\* the 8th digit is not the check digit of the first 7, and otherwise the Ean8,
\* respectively UpcE, of the digits, whatever the leading digit.
C6_ExplicitParsers ==
    /\ call = "parse_ean8" => ret = ExplicitParse(text, Ean8)
    /\ call = "parse_upce" => ret = ExplicitParse(text, UpcE)

\* parse_upce returned a UpcE for digits that try_from classifies as Ean8.
C6_Witness ==
    /\ call = "parse_upce"
    /\ ret.ok
    /\ ret.val.variant = "UpcE"
    /\ ret.val.digits[1] # 0
    /\ try_from(text) = Ok(Ean8(ret.val.digits))

\* The 6 core digits of a UPC-E encoding of 6, 7 or 8 digits.
CoreOf(u) ==
    CASE Len(u) = 8 -> SubSeq(u, 2, 7)
      [] Len(u) = 7 -> SubSeq(u, 1, 6)
      [] Len(u) = 6 -> u

\* The expansion table: the 12 digits of the UPC-A of core c[1..6] = d0..d5.
TableExpansion(c) ==
    LET manufacturer ==
            CASE c[6] \in {0, 1, 2} -> <<c[1], c[2], c[6], 0, 0>>
              [] c[6] = 3 -> <<c[1], c[2], c[3], 0, 0>>
              [] c[6] = 4 -> <<c[1], c[2], c[3], c[4], 0>>
              [] c[6] \in 5..9 -> <<c[1], c[2], c[3], c[4], c[5]>>
        item ==
            CASE c[6] \in {0, 1, 2} -> <<0, 0, c[3], c[4], c[5]>>
              [] c[6] = 3 -> <<0, 0, 0, c[4], c[5]>>
              [] c[6] = 4 -> <<0, 0, 0, 0, c[5]>>
              [] c[6] \in 5..9 -> <<0, 0, 0, 0, c[6]>>
        eleven == <<0>> \o manufacturer \o item
    IN  Append(eleven, GS1CheckDigit(eleven))

\* C7: expand of 6, 7 or 8 digits returns the UpcA the expansion table gives
\* the core digits, a 12-digit value that passes validate; expand of any other
\* length fails with ConversionFailed.
C7_Expand ==
    call = "expand_upce_to_upca" =>
        IF Len(slice) \in 6..8
        THEN /\ ret = Ok(UpcA(TableExpansion(CoreOf(slice))))
             /\ Len(ret.val.digits) = 12
             /\ CheckDigitOk(ret.val.digits)
        ELSE ret = Err(ConversionFailed)

\* The part of C7 the code meets: the expansion of 6, 7 and 8 digits, and a
\* failure of some kind for every other length.
C7_ExpandTable ==
    call = "expand_upce_to_upca" =>
        IF Len(slice) \in 6..8
        THEN /\ ret = Ok(UpcA(TableExpansion(CoreOf(slice))))
             /\ Len(ret.val.digits) = 12
             /\ CheckDigitOk(ret.val.digits)
        ELSE ~ret.ok

\* The GS1 prefix of a value, as a number: p0*100 + p1*10 + p2.
PrefixOf(v) ==
    LET d == v.digits
    IN  CASE v.variant \in {"Ean13", "Ean8"} -> <<d[1], d[2], d[3]>>
          [] v.variant = "UpcA" -> <<0, d[1], d[2]>>
          [] v.variant = "UpcE" ->
                LET e == expand_upce_to_upca(d).val.digits IN <<0, e[1], e[2]>>
          [] v.variant = "Gtin14" -> <<d[2], d[3], d[4]>>

PrefixNumber(v) == PrefixOf(v)[1] * 100 + PrefixOf(v)[2] * 10 + PrefixOf(v)[3]

\* The number-system ranges: <<first, last, category>>.
CategoryRanges ==
    << <<20, 29, "StoreUse">>, <<40, 49, "StoreUse">>, <<200, 299, "StoreUse">>,
       <<30, 39, "Drug">>,
       <<50, 59, "Coupon">>, <<981, 984, "Coupon">>, <<990, 999, "Coupon">>,
       <<977, 977, "Issn">>, <<978, 979, "Isbn">>, <<980, 980, "Refund">> >>

\* The entry of a range table that holds number x, or dflt when none does.
Lookup(table, x, dflt) ==
    LET hits == {i \in 1..Len(table) : table[i][1] <= x /\ x <= table[i][2]}
    IN  IF hits = {} THEN dflt ELSE table[CHOOSE i \in hits : TRUE][3]

CategoryOf(x) == Lookup(CategoryRanges, x, "General")

\* C8: number_system(v) is the category of the number of v's GS1 prefix; it is
\* General outside the listed ranges and never Unknown, every value having a
\* prefix.
C8_NumberSystem ==
    call = "number_system" =>
        /\ ret = CategoryOf(PrefixNumber(gtin.val))
        /\ ret # "Unknown"

\* number_system found a Coupon prefix (981..984) behind a Gtin14's indicator.
C8_Witness ==
    /\ call = "number_system"
    /\ gtin.val.variant = "Gtin14"
    /\ gtin.val.digits[1] # 0
    /\ PrefixNumber(gtin.val) \in 981..984
    /\ ret = "Coupon"

\* The country ranges: <<first, last, code>>. 390 is Kosovo, which has no
\* two-letter code; its entry is the name.
CountryRanges ==
    << <<0, 139, "US">>, <<300, 379, "FR">>, <<380, 380, "BG">>, <<383, 383, "SI">>,
       <<385, 385, "HR">>, <<387, 387, "BA">>, <<389, 389, "ME">>,
       <<390, 390, "KOSOVO">>, <<400, 440, "DE">>, <<450, 459, "JP">>,
       <<490, 499, "JP">>, <<460, 469, "RU">>, <<470, 470, "KG">>,
       <<471, 471, "TW">>, <<474, 474, "EE">>, <<500, 509, "GB">>,
       <<520, 521, "GR">>, <<539, 539, "IE">>, <<540, 549, "BE">>,
       <<570, 579, "DK">>, <<590, 590, "PL">>, <<599, 599, "HU">>,
       <<618, 618, "CI">>, <<619, 619, "TN">>, <<640, 649, "FI">>,
       <<700, 709, "NO">>, <<730, 739, "SE">>, <<742, 742, "HN">>,
       <<750, 750, "MX">>, <<754, 755, "CA">>, <<759, 759, "VE">>,
       <<760, 769, "CH">>, <<773, 773, "UY">>, <<789, 790, "BR">>,
       <<800, 839, "IT">>, <<840, 849, "ES">>, <<858, 858, "SK">>,
       <<859, 859, "CZ">>, <<860, 860, "RS">>, <<870, 879, "NL">>,
       <<885, 885, "TH">>, <<888, 888, "SG">>, <<900, 919, "AT">>,
       <<930, 939, "AU">>, <<940, 949, "NZ">> >>

\* C9: country_code(v) is "US" for a Drug prefix, None for a StoreUse, Coupon,
\* Isbn, Issn or Refund prefix even inside a country range, and otherwise the
\* country range table's entry for the prefix number, None when there is none.
C9_CountryCode ==
    call = "country_code" =>
        LET x == PrefixNumber(gtin.val)
            category == CategoryOf(x)
        IN  ret = CASE category = "Drug" -> Some("US")
                    [] category \in {"StoreUse", "Coupon", "Isbn", "Issn", "Refund"} ->
                            None
                    [] OTHER ->
                            LET code == Lookup(CountryRanges, x, "")
                            IN  IF code = "" THEN None ELSE Some(code)

\* country_code gave no country to a StoreUse prefix inside the US range 0..139.
C9_Witness ==
    /\ call = "country_code"
    /\ gtin.val.variant = "Ean13"
    /\ PrefixNumber(gtin.val) \in 20..29
    /\ ret = None

\* C10: as_ean13 returns an Ean13 unchanged, a UpcA as the Ean13 of 0 and its
\* 12 digits, a UpcE as the Ean13 of 0 and the digits of its expansion, and
\* None for an Ean8 or a Gtin14; it is never None for the first three.
C10_AsEan13 ==
    call = "as_ean13" =>
        LET v == gtin.val
        IN  /\ v.variant = "Ean13" => ret = Some(v)
            /\ v.variant = "UpcA" =>
                    /\ ret = Some(Ean13(<<0>> \o v.digits))
                    /\ SubSeq(ret.val.digits, 2, 13) = v.digits
            /\ v.variant = "UpcE" =>
                    ret = Some(Ean13(<<0>> \o TableExpansion(CoreOf(v.digits))))
            /\ v.variant \in {"Ean8", "Gtin14"} => ret = None
            /\ v.variant \in {"Ean13", "UpcA", "UpcE"} => ret.some

\* as_ean13 returned the padded expansion of a UpcE.
C10_Witness ==
    /\ call = "as_ean13"
    /\ gtin.val.variant = "UpcE"
    /\ ret.some
    /\ ret.val.variant = "Ean13"
    /\ Len(ret.val.digits) = 13

\* The strings of exactly two uppercase letters.
UpperLetters ==
    {"A", "B", "C", "D", "E", "F", "G", "H", "I", "J", "K", "L", "M",
     "N", "O", "P", "Q", "R", "S", "T", "U", "V", "W", "X", "Y", "Z"}
Alpha2 == {a \o b : a \in UpperLetters, b \in UpperLetters}

\* C11: whenever country_code returns a value, it is an ISO 3166-1 alpha-2
\* code: a string of exactly two uppercase letters.
C11_Alpha2 ==
    (call = "country_code" /\ ret.some) => ret.val \in Alpha2

\* The part of C11 the code meets: outside the prefix 390, every value
\* country_code returns is a string of two uppercase letters.
C11_Alpha2Except390 ==
    (call = "country_code" /\ ret.some /\ PrefixNumber(gtin.val) # 390) =>
        ret.val \in Alpha2

\* C12: a UpcE value, whatever its leading digit and its check digit, has the
\* GS1 prefix [0, 0, d1] with d1 its second digit, so that its number system is
\* General and its country code "US".
C12_UpcEPrefix ==
    (gtin.some /\ gtin.val.variant = "UpcE") =>
        /\ call = "gs1_prefix" => ret = Some(<<0, 0, gtin.val.digits[2]>>)
        /\ call = "number_system" => ret = "General"
        /\ call = "country_code" => ret = Some("US")

\* country_code answered for a UpcE that parse_upce forced on digits starting
\* with a non-zero digit.
C12_Witness ==
    /\ kind = "text"
    /\ call = "country_code"
    /\ gtin.val.variant = "UpcE"
    /\ gtin.val.digits[1] # 0
    /\ ret = Some("US")

====
